---- MODULE Spec2Model ----
(***************************************************************************)
(* Model of golem/ethereum/node.py: the NodeProcess supervisor of a geth   *)
(* child process (construction with the version gate, start, the readiness *)
(* poll, chain identification, stop) together with the environment it      *)
(* talks to: the geth binary, the init subcommand, the spawned children,    *)
(* the IPC endpoint.                                                        *)
(*                                                                         *)
(* Exceptions are recorded by the Python class the code raises.  The       *)
(* specification's names map onto them as follows:                         *)
(*   LifecycleError      -> RuntimeError("... already started by us")      *)
(*   EnvironmentError    -> OSError("geth init failed ...") / not found    *)
(*   ConfigurationError  -> OSError("Incompatible ... version") and        *)
(*                          OSError("Wrong '...' Ethereum chain")          *)
(***************************************************************************)
EXTENDS Integers, Sequences, FiniteSets, TLC

(***************************************************************************)
(* Bounds of the model.                                                    *)
(***************************************************************************)
\* supervisor objects the program may construct
NumInstances == 2
\* long-running children spawned over a behaviour
MaxProcs == 2
\* init subcommands run over a behaviour
MaxInits == 2
\* failed probes (sleeps) counted within one start()
MaxWait == 2
\* bytes of an address (20 in the program, abbreviated)
AddrLen == 2

Instances == 1..NumInstances

(***************************************************************************)
(* Strings are sequences of one-character strings, so that parsing and     *)
(* comparison are computed, not assumed.                                   *)
(***************************************************************************)
Digits == {"0", "1", "2", "3", "4", "5", "6", "7", "8", "9"}

DigitVal(c) ==
  CASE c = "0" -> 0 [] c = "1" -> 1 [] c = "2" -> 2 [] c = "3" -> 3
    [] c = "4" -> 4 [] c = "5" -> 5 [] c = "6" -> 6 [] c = "7" -> 7
    [] c = "8" -> 8 [] c = "9" -> 9

\* string.atoi on a string of decimal digits
RECURSIVE atoi(_)
atoi(s) ==
  IF s = <<>> THEN 0
  ELSE 10 * atoi(SubSeq(s, 1, Len(s) - 1)) + DigitVal(s[Len(s)])

\* the longest prefix of s made of digits: what a greedy \d+ consumes
RECURSIVE TakeDigits(_)
TakeDigits(s) ==
  IF s # <<>> /\ s[1] \in Digits THEN <<s[1]>> \o TakeDigits(Tail(s))
  ELSE <<>>

Drop(s, n) == SubSeq(s, n + 1, Len(s))

\* class attributes of NodeProcess
MIN_GETH_VERSION == <<"1", ".", "6", ".", "1">>
MAX_GETH_VERSION == <<"1", ".", "6", ".", "9", "9", "9">>

NoMatch == <<>>

(***************************************************************************)
(* re.search("Version: (\d+\.\d+\.\d+)", output).group(1).  The output of  *)
(* `geth version` is modelled by the text that follows its "Version: "     *)
(* label; NoLabel stands for an output without the label.  The result is   *)
(* the matched group, or NoMatch when re.search returns None.              *)
(***************************************************************************)
NoLabel == <<"?">>

ReSearchVersion(output) ==
  IF output = NoLabel THEN NoMatch
  ELSE
    LET a  == TakeDigits(output)
        r1 == Drop(output, Len(a))
        b  == IF r1 # <<>> /\ r1[1] = "." THEN TakeDigits(Tail(r1)) ELSE <<>>
        r2 == Drop(r1, Len(b) + 1)
        c  == IF r2 # <<>> /\ r2[1] = "." THEN TakeDigits(Tail(r2)) ELSE <<>>
    IN IF a # <<>> /\ b # <<>> /\ c # <<>>
         THEN a \o <<".">> \o b \o <<".">> \o c
         ELSE NoMatch

\* the components of a dotted string, as strings
RECURSIVE SplitDots(_)
SplitDots(s) ==
  LET h == TakeDigits(s)
      r == Drop(s, Len(h))
  IN IF r = <<>> THEN <<h>> ELSE <<h>> \o SplitDots(Tail(r))

\* StrictVersion(vstring).version: the tuple of the numeric components
StrictVersion(vstring) ==
  LET parts == SplitDots(vstring)
  IN [k \in 1..Len(parts) |-> atoi(parts[k])]

\* cmp() of two tuples of integers: -1, 0 or 1, decided at the first
\* component that differs
RECURSIVE TupleCmp(_, _)
TupleCmp(x, y) ==
  IF x = <<>> /\ y = <<>> THEN 0
  ELSE IF x = <<>> THEN -1
  ELSE IF y = <<>> THEN 1
  ELSE IF x[1] < y[1] THEN -1
  ELSE IF x[1] > y[1] THEN 1
  ELSE TupleCmp(Tail(x), Tail(y))

\* StrictVersion.__cmp__(self, other) with other given as a string
VersionCmp(ver, other) == TupleCmp(ver, StrictVersion(other))

\* A plausible slip: both bounds exclusive.
VersionRejectedExclusive(ver) ==
  VersionCmp(ver, MIN_GETH_VERSION) <= 0 \/ VersionCmp(ver, MAX_GETH_VERSION) >= 0

\* A plausible slip: the range test left out.
VersionRejectedNever(ver) == FALSE

\* the test of __init__: ver < MIN_GETH_VERSION or ver > MAX_GETH_VERSION
VersionRejected(ver) ==
  VersionCmp(ver, MIN_GETH_VERSION) < 0 \/ VersionCmp(ver, MAX_GETH_VERSION) > 0

(***************************************************************************)
(* The geth binary: its version, and what `geth version` prints after the  *)
(* label: the components in decimal joined by dots, then a build suffix.   *)
(***************************************************************************)
DigitChar(d) ==
  CASE d = 0 -> "0" [] d = 1 -> "1" [] d = 2 -> "2" [] d = 3 -> "3"
    [] d = 4 -> "4" [] d = 5 -> "5" [] d = 6 -> "6" [] d = 7 -> "7"
    [] d = 8 -> "8" [] d = 9 -> "9"

RECURSIVE itoa(_)
itoa(n) == IF n < 10 THEN <<DigitChar(n)>> ELSE itoa(n \div 10) \o <<DigitChar(n % 10)>>

RECURSIVE JoinDots(_)
JoinDots(v) ==
  IF Len(v) = 1 THEN itoa(v[1]) ELSE itoa(v[1]) \o <<".">> \o JoinDots(Tail(v))

GethVersions ==
  { <<1, 6, 1>>, <<1, 6, 999>>, <<1, 6, 0>>, <<1, 6, 1000>>, <<1, 7, 0>>,
    <<1, 5, 9>>, <<0, 6, 5>>, <<2, 0, 0>>, <<1, 6>> }

\* a release candidate prints a suffix after the number
Suffix == <<"-", "r", "c">>

\* the binaries the program may find: [version, output]
Binaries ==
  { [version |-> v, output |-> JoinDots(v)] : v \in GethVersions }
  \cup { [version |-> <<1, 7, 0>>, output |-> JoinDots(<<1, 7, 0>>) \o Suffix],
         [version |-> <<>>, output |-> NoLabel] }

(***************************************************************************)
(* Genesis hashes, abbreviated to the first six hex digits of the 64, as   *)
(* sequences of characters.                                                *)
(***************************************************************************)
GENESES ==
  { << <<"0", "x", "d", "4", "e", "5", "6", "7">>, "mainnet" >>,
    << <<"0", "x", "4", "1", "9", "4", "1", "0">>, "ropsten" >>,
    << <<"0", "x", "6", "3", "4", "1", "f", "d">>, "rinkeby" >> }

\* A plausible slip: the expected chain as the default of the lookup.
GenesesGetDefaultChain(genesis) ==
  IF \E e \in GENESES : e[1] = genesis
    THEN (CHOOSE e \in GENESES : e[1] = genesis)[2]
    ELSE "rinkeby"

\* dict.get(genesis, 'unknown'): exact match on the key
GenesesGet(genesis) ==
  IF \E e \in GENESES : e[1] = genesis
    THEN (CHOOSE e \in GENESES : e[1] = genesis)[2]
    ELSE "unknown"

\* hashes the node may report for block 0
GenesisHashes ==
  { <<"0", "x", "d", "4", "e", "5", "6", "7">>,
    <<"0", "x", "4", "1", "9", "4", "1", "0">>,
    <<"0", "x", "6", "3", "4", "1", "f", "d">>,
    <<"0", "x", "6", "3", "4", "1", "F", "D">>,
    <<"6", "3", "4", "1", "f", "d">>,
    <<"0", "x", "d", "e", "a", "d", "b", "e">> }

\* the chain start() expects
chain == "rinkeby"

VARIABLES
  gethFound,   \* find_program('geth') finds a binary
  gethVersion, \* the version of that binary, as numbers
  gethOutput,  \* what that binary prints for `version`
  obj,         \* per instance: "none", "ok", or the exception __init__ raised
  ps,          \* per instance: self.__ps, 0 for None, else the child's index in procs
  procs,       \* every long-running child spawned: [owner, status]
  initRuns,    \* init subcommands run so far
  hooks,       \* atexit registrations, in order: the instance each one stops
  polling,     \* the instance whose start() is in the readiness loop, 0 if none
  wait_time,   \* sleeps made by the start() in progress (units of WAIT_PERIOD)
  startedOK,   \* per instance: a start() succeeded and stop() was not called since
  last,        \* the most recent call and its outcome ("polling": in the loop)
  exitpos,     \* -1 while the program runs; at exit, the exit hooks still to run
  tool         \* the call of a module-level function under way and its outcome

vars == <<gethFound, gethVersion, gethOutput, obj, ps, procs, initRuns, hooks, polling,
          wait_time, startedOK, last, exitpos, tool>>

\* the state of the supervisors and of their environment
nodeVars == <<gethFound, gethVersion, gethOutput, obj, ps, procs, initRuns, hooks,
              polling, wait_time, startedOK, last>>

\* no module-level function called
NoTool == [op |-> "none"]

NoCall ==
  [op |-> "none", inst |-> 0, tick |-> 0, result |-> "none",
   wasRunning |-> FALSE, wasStarted |-> FALSE, returncode |-> -1,
   signalled |-> FALSE, genesis |-> <<>>, identified |-> "none"]

\* The record of a call of op on instance i: tick flips at every call,
\* wasRunning and wasStarted are taken when the call is made, returncode is
\* the exit code of the init subcommand the call ran (-1: it ran none),
\* genesis and identified are the hash the node reported and the chain
\* identify_chain made of it.
Call(op, i, result) ==
  [op |-> op, inst |-> i, tick |-> 1 - last.tick, result |-> result,
   wasRunning |-> ps[i] # 0, wasStarted |-> startedOK[i], returncode |-> -1,
   signalled |-> FALSE, genesis |-> <<>>, identified |-> "none"]

is_running(i) == ps[i] # 0

Init ==
  /\ gethFound \in BOOLEAN
  /\ \E b \in Binaries : gethVersion = b.version /\ gethOutput = b.output
  /\ obj = [i \in Instances |-> "none"]
  /\ ps = [i \in Instances |-> 0]
  /\ procs = <<>>
  /\ initRuns = 0
  /\ hooks = <<>>
  /\ polling = 0
  /\ wait_time = 0
  /\ startedOK = [i \in Instances |-> FALSE]
  /\ last = NoCall
  /\ exitpos = -1
  /\ tool = NoTool

(***************************************************************************)
(* NodeProcess.__init__(datadir).  A raised exception leaves no object to  *)
(* call: only an instance with obj[i] = "ok" takes part in start and stop. *)
(***************************************************************************)
ConstructOutcome ==
  IF ~gethFound THEN "OSError: geth not found"
  ELSE LET m == ReSearchVersion(gethOutput)
       IN IF m = NoMatch THEN "AttributeError"
          ELSE IF VersionRejected(StrictVersion(m))
                 THEN "OSError: incompatible version"
                 ELSE "ok"

Construct(i) ==
  /\ polling = 0
  /\ obj[i] = "none"
  /\ obj' = [obj EXCEPT ![i] = ConstructOutcome]
  /\ last' = Call("construct", i, ConstructOutcome)
  /\ UNCHANGED <<gethFound, gethVersion, gethOutput, ps, procs, initRuns, hooks, polling,
                 wait_time, startedOK>>

(***************************************************************************)
(* NodeProcess.start(), up to the readiness loop.                          *)
(***************************************************************************)
\* A plausible slip: the guard of start() left out.
AlreadyStartedUnchecked(i) == FALSE

\* A plausible slip: a guard shared by all instances.
AlreadyStartedAnywhere(i) == \E j \in Instances : ps[j] # 0

\* line 93: self.__ps is not None
AlreadyStarted(i) == ps[i] # 0

\* A plausible slip: the exit code of init ignored.
InitFailedIgnored(returncode) == FALSE

\* line 110: init_subp.returncode != 0
InitFailed(returncode) == returncode # 0

\* exit codes of the init subcommand
InitCodes == {0, 1}

StartAlreadyStarted(i) ==
  /\ AlreadyStarted(i)
  /\ last' = Call("start", i, "RuntimeError: already started")
  /\ UNCHANGED <<ps, procs, initRuns, hooks, polling, wait_time, startedOK>>

StartInitFailed(i, returncode) ==
  /\ ~AlreadyStarted(i)
  /\ initRuns < MaxInits
  /\ InitFailed(returncode)
  /\ initRuns' = initRuns + 1
  /\ last' = [Call("start", i, "OSError: geth init failed")
                EXCEPT !.returncode = returncode]
  /\ UNCHANGED <<ps, procs, hooks, polling, wait_time, startedOK>>

\* A plausible slip: no exit hook registered.
RegisteredNothing(i) == hooks

\* line 127: atexit.register(lambda: self.stop())
Registered(i) == Append(hooks, i)

\* Popen of the long-running node, atexit.register, entry into the loop
StartSpawn(i, returncode) ==
  /\ ~AlreadyStarted(i)
  /\ initRuns < MaxInits
  /\ Len(procs) < MaxProcs
  /\ ~InitFailed(returncode)
  /\ initRuns' = initRuns + 1
  /\ procs' = Append(procs, [owner |-> i, status |-> "alive"])
  /\ ps' = [ps EXCEPT ![i] = Len(procs) + 1]
  /\ hooks' = Registered(i)
  /\ polling' = i
  /\ wait_time' = 0
  /\ last' = [Call("start", i, "polling") EXCEPT !.returncode = returncode]
  /\ UNCHANGED startedOK

start(i) ==
  /\ polling = 0
  /\ obj[i] = "ok"
  /\ \/ StartAlreadyStarted(i)
     \/ \E returncode \in InitCodes : StartInitFailed(i, returncode)
     \/ \E returncode \in InitCodes : StartSpawn(i, returncode)
  /\ UNCHANGED <<gethFound, gethVersion, gethOutput, obj>>

(***************************************************************************)
(* The readiness loop of start() and what follows it.                      *)
(***************************************************************************)
\* NodeProcess.identify_chain, given the hash of block 0 the node reports
identify_chain(genesis) == GenesesGet(genesis)

\* A plausible slip: the chain test left out.
WrongChainIgnored(identified_chain) == FALSE

\* line 138: identified_chain != chain
WrongChain(identified_chain) == identified_chain # chain

\* line 128, in tenths of a second
WAIT_PERIOD == 1

\* A plausible slip: the interval grows with the time already waited.
SleptBackoff(waited) == WAIT_PERIOD + waited

\* line 134: time.sleep(WAIT_PERIOD), whatever was waited before
Slept(waited) == WAIT_PERIOD

\* isConnected() is False: sleep and count it
PollSleep ==
  /\ polling # 0
  /\ wait_time < MaxWait * WAIT_PERIOD
  /\ wait_time' = wait_time + Slept(wait_time)
  /\ UNCHANGED <<gethFound, gethVersion, gethOutput, obj, ps, procs, initRuns, hooks,
                 polling, startedOK, last>>

\* isConnected() is True: the loop ends, the chain is identified, start()
\* returns or raises.  Whether the socket answers, and with which genesis
\* hash, is the environment's choice: the code asks the socket under the
\* datadir, whoever serves it.
PollConnected(genesis) ==
  /\ polling # 0
  /\ LET identified_chain == identify_chain(genesis)
     IN IF WrongChain(identified_chain)
          THEN /\ last' = [last EXCEPT !.result = "OSError: wrong chain",
                                       !.genesis = genesis,
                                       !.identified = identified_chain]
               /\ UNCHANGED startedOK
          ELSE /\ last' = [last EXCEPT !.result = "ok",
                                       !.genesis = genesis,
                                       !.identified = identified_chain]
               /\ startedOK' = [startedOK EXCEPT ![polling] = TRUE]
  /\ polling' = 0
  /\ wait_time' = 0
  /\ UNCHANGED <<gethFound, gethVersion, gethOutput, obj, ps, procs, initRuns, hooks>>

\* identify_chain() called by the owner of the instance, outside start():
\* self.web3 is the connection start() made, and the node that answers the
\* block query is the child the instance holds
IdentifyCall(i, genesis) ==
  /\ polling = 0
  /\ obj[i] = "ok"
  /\ ps[i] # 0
  /\ procs[ps[i]].status = "alive"
  /\ last' = [Call("identify_chain", i, identify_chain(genesis))
               EXCEPT !.genesis = genesis, !.identified = identify_chain(genesis)]
  /\ UNCHANGED <<gethFound, gethVersion, gethOutput, obj, ps, procs, initRuns,
                 hooks, polling, wait_time, startedOK>>

(***************************************************************************)
(* NodeProcess.stop().                                                     *)
(***************************************************************************)
\* Popen.terminate() signals the pid: it raises when no such process is
\* left (the child exited and was reaped behind the supervisor's back)
TerminateRaises(p) == procs[p].status = "gone"

\* A plausible slip: the handle is not cleared.
ClearedHandleKept(i) == ps

\* line 154: self.__ps = None
ClearedHandle(i) == [ps EXCEPT ![i] = 0]

\* A plausible slip: terminate() without wait().
TerminatedNotWaited(p) == [procs EXCEPT ![p].status = "exited"]

\* lines 148-149: terminate() then wait(): the child has exited and is reaped
TerminatedAndWaited(p) == [procs EXCEPT ![p].status = "reaped"]

\* line 150: `except subprocess.NoSuchProcess`.  The subprocess module has
\* no attribute of that name, so when the try block raises, evaluating the
\* clause raises AttributeError and nothing is caught.
HandlerCatches == FALSE

stop(i) ==
  /\ polling = 0
  /\ obj[i] = "ok"
  /\ IF ps[i] = 0
       THEN /\ last' = Call("stop", i, "ok")
            /\ UNCHANGED <<ps, procs>>
       ELSE IF ~TerminateRaises(ps[i])
         THEN /\ procs' = TerminatedAndWaited(ps[i])
              /\ ps' = ClearedHandle(i)
              /\ last' = [Call("stop", i, "ok") EXCEPT !.signalled = TRUE]
         ELSE IF HandlerCatches
           THEN /\ ps' = ClearedHandle(i)
                /\ last' = [Call("stop", i, "ok") EXCEPT !.signalled = TRUE]
                /\ UNCHANGED procs
           ELSE /\ last' = [Call("stop", i, "AttributeError")
                              EXCEPT !.signalled = TRUE]
                /\ UNCHANGED <<ps, procs>>
  /\ startedOK' = [startedOK EXCEPT ![i] = FALSE]
  /\ UNCHANGED <<gethFound, gethVersion, gethOutput, obj, initRuns, hooks, polling,
                 wait_time>>

(***************************************************************************)
(* The environment: a child may exit on its own, and an exited child may   *)
(* be reaped by the host program (its pid then names no process).          *)
(***************************************************************************)
ChildExits(p) ==
  /\ p \in 1..Len(procs)
  /\ procs[p].status = "alive"
  /\ procs' = [procs EXCEPT ![p].status = "exited"]
  /\ UNCHANGED <<gethFound, gethVersion, gethOutput, obj, ps, initRuns, hooks, polling,
                 wait_time, startedOK, last>>

ChildReaped(p) ==
  /\ p \in 1..Len(procs)
  /\ procs[p].status = "exited"
  /\ procs' = [procs EXCEPT ![p].status = "gone"]
  /\ UNCHANGED <<gethFound, gethVersion, gethOutput, obj, ps, initRuns, hooks, polling,
                 wait_time, startedOK, last>>

\* the program has not begun to exit
Running == exitpos = -1

Next ==
  \/ \E i \in Instances : Running /\ Construct(i) /\ UNCHANGED <<exitpos, tool>>
  \/ \E i \in Instances : Running /\ start(i) /\ UNCHANGED <<exitpos, tool>>
  \/ \E i \in Instances : Running /\ stop(i) /\ UNCHANGED <<exitpos, tool>>
  \/ Running /\ PollSleep /\ UNCHANGED <<exitpos, tool>>
  \/ \E genesis \in GenesisHashes :
       Running /\ PollConnected(genesis) /\ UNCHANGED <<exitpos, tool>>
  \/ \E p \in 1..MaxProcs : ChildExits(p) /\ UNCHANGED <<exitpos, tool>>
  \/ \E p \in 1..MaxProcs : ChildReaped(p) /\ UNCHANGED <<exitpos, tool>>

Spec == Init /\ [][Next]_vars

\* the supervisor with identify_chain() open to its owner
IdentifyNext ==
  \/ Next
  \/ \E i \in Instances : \E genesis \in GenesisHashes :
       Running /\ IdentifyCall(i, genesis) /\ UNCHANGED <<exitpos, tool>>

IdentifySpec == Init /\ [][IdentifyNext]_vars

(***************************************************************************)
(* Normal exit of the program: the interpreter runs the functions given to *)
(* atexit.register, the last registered first.  An exception a hook raises *)
(* is printed and the remaining hooks still run.                           *)
(***************************************************************************)
\* the program exits while no call of the supervisor is under way
Exit ==
  /\ Running
  /\ polling = 0
  /\ exitpos' = Len(hooks)
  /\ UNCHANGED <<nodeVars, tool>>

\* line 127: the hook is `lambda: self.stop()`
RunHook ==
  /\ exitpos > 0
  /\ stop(hooks[exitpos])
  /\ exitpos' = exitpos - 1
  /\ UNCHANGED tool

ExitNext ==
  \/ Next
  \/ Exit
  \/ RunHook

ExitSpec == Init /\ [][ExitNext]_vars

TypeOK ==
  /\ obj \in [Instances -> {"none", "ok", "AttributeError",
                            "OSError: geth not found",
                            "OSError: incompatible version"}]
  /\ ps \in [Instances -> 0..Len(procs)]
  /\ \A p \in 1..Len(procs) :
        /\ procs[p].owner \in Instances
        /\ procs[p].status \in {"alive", "exited", "gone", "reaped"}
  /\ initRuns \in 0..MaxInits
  /\ Len(procs) <= MaxProcs
  /\ polling \in 0..NumInstances
  /\ wait_time \in 0..(MaxWait * WAIT_PERIOD)
  /\ exitpos \in -1..Len(hooks)

(***************************************************************************)
(* ropsten_faucet_donate(addr).  Addresses are sequences of bytes; the     *)
(* caller gives one as bytes, as hex digits, or as hex digits after "0x".  *)
(***************************************************************************)
HexChars == <<"0", "1", "2", "3", "4", "5", "6", "7", "8", "9",
              "a", "b", "c", "d", "e", "f">>

\* str.encode('hex'): two lowercase hex digits per byte
RECURSIVE HexEncode(_)
HexEncode(bytes) ==
  IF bytes = <<>> THEN <<>>
  ELSE <<HexChars[(bytes[1] \div 16) + 1], HexChars[(bytes[1] % 16) + 1]>>
         \o HexEncode(Tail(bytes))

\* the value of a hex digit of either case
HexVal(c) ==
  CASE c \in Digits -> DigitVal(c)
    [] c \in {"a", "A"} -> 10 [] c \in {"b", "B"} -> 11
    [] c \in {"c", "C"} -> 12 [] c \in {"d", "D"} -> 13
    [] c \in {"e", "E"} -> 14 [] c \in {"f", "F"} -> 15

\* decode_hex: a byte per two hex digits
RECURSIVE DecodeHex(_)
DecodeHex(chars) ==
  IF Len(chars) < 2 THEN <<>>
  ELSE <<16 * HexVal(chars[1]) + HexVal(chars[2])>> \o DecodeHex(Drop(chars, 2))

\* str.upper() on hex digits
UpperChar(c) ==
  CASE c = "a" -> "A" [] c = "b" -> "B" [] c = "c" -> "C" [] c = "d" -> "D"
    [] c = "e" -> "E" [] c = "f" -> "F" [] OTHER -> c

Upper(chars) == [k \in 1..Len(chars) |-> UpperChar(chars[k])]

\* the addresses a caller may mean
Targets == [1..AddrLen -> {18, 205}]

\* the ways a caller may write the address `target`
AddressInputs(target) ==
  { [form |-> "bytes", data |-> target],
    [form |-> "hex", data |-> HexEncode(target)],
    [form |-> "hex", data |-> Upper(HexEncode(target))],
    [form |-> "0xhex", data |-> <<"0", "x">> \o HexEncode(target)] }

\* ethereum.utils.normalize_address: strip "0x", decode hex digits, and
\* require the length of an address
normalize_address(addr) ==
  LET stripped == IF addr.form = "0xhex" THEN Drop(addr.data, 2) ELSE addr.data
      bytes    == IF addr.form = "bytes" THEN stripped ELSE DecodeHex(stripped)
  IN IF Len(bytes) = AddrLen THEN bytes ELSE <<>>

URL_TEMPLATE == "http://188.165.227.180:4000/donate/"

\* URL_TEMPLATE.format(addr.encode('hex'))
RequestUrl(addr) == <<URL_TEMPLATE>> \o HexEncode(normalize_address(addr))

\* what the faucet may answer: the status, whether the body is JSON, and
\* which of the fields paydate, message and amount the body carries
Responses ==
  [status : {200, 500}, isJson : BOOLEAN,
   hasPaydate : BOOLEAN, paydate : {0, 1486605259},
   hasMessage : BOOLEAN, hasAmount : BOOLEAN]

\* what ropsten_faucet_donate returns ("True", "False") or raises
DonateResult(response) ==
  IF response.status # 200 THEN "False"
  ELSE IF ~response.isJson THEN "ValueError"
  ELSE IF ~response.hasPaydate THEN "KeyError: paydate"
  ELSE IF response.paydate = 0
    THEN IF response.hasMessage THEN "False" ELSE "KeyError: message"
  ELSE IF response.hasAmount THEN "True" ELSE "KeyError: amount"

ropsten_faucet_donate(target, addr, response) ==
  /\ tool = NoTool
  /\ tool' = [op |-> "ropsten_faucet_donate", target |-> target, addr |-> addr,
              requests |-> <<RequestUrl(addr)>>, response |-> response,
              result |-> DonateResult(response)]
  /\ UNCHANGED <<nodeVars, exitpos>>

(***************************************************************************)
(* get_default_geth_path(testnet).  A path is the sequence of its          *)
(* components and separators; a component is never the empty string.       *)
(***************************************************************************)
Sep == "/"

\* os.path.join on the path so far and one more component: an empty
\* component adds only the separator
JoinOne(path, b) ==
  LET sepd == IF path = <<>> \/ path[Len(path)] = Sep THEN path
              ELSE Append(path, Sep)
  IN IF b = "" THEN sepd ELSE Append(sepd, b)

RECURSIVE JoinFrom(_, _)
JoinFrom(path, parts) ==
  IF parts = <<>> THEN path ELSE JoinFrom(JoinOne(path, Head(parts)), Tail(parts))

\* os.path.join(parts[1], parts[2], ...)
PathJoin(parts) ==
  JoinFrom(IF Head(parts) = "" THEN <<>> ELSE <<Head(parts)>>, Tail(parts))

\* the home directory of the user
Home == <<Sep, "home", Sep, "golem">>

\* os.path.expanduser: a leading "~" becomes the home directory
ExpandUser(path) ==
  IF path # <<>> /\ path[1] = "~" THEN Home \o Tail(path) ELSE path

\* the path without trailing separators, the root kept
RECURSIVE StripSeps(_)
StripSeps(path) ==
  IF Len(path) > 1 /\ path[Len(path)] = Sep
    THEN StripSeps(SubSeq(path, 1, Len(path) - 1))
    ELSE path

\* the path up to and including its last separator
RECURSIVE UpToLastSep(_)
UpToLastSep(path) ==
  IF path = <<>> \/ path[Len(path)] = Sep THEN path
  ELSE UpToLastSep(SubSeq(path, 1, Len(path) - 1))

\* os.path.dirname
DirName(path) == StripSeps(UpToLastSep(path))

\* values of sys.platform
Platforms == {"darwin", "linux", "win32", "freebsd", "cygwin"}

NoPath == [raised |-> "ValueError", path |-> <<>>]

Path(path) == [raised |-> "none", path |-> path]

\* web3's get_default_ipc_path(testnet), as line 188 calls it: the socket
\* geth.ipc under the data directory of the platform, and ValueError for a
\* platform it does not know
get_default_ipc_path(platform, testnet) ==
  LET net == IF testnet THEN "testnet" ELSE ""
  IN CASE platform = "darwin" ->
            Path(ExpandUser(PathJoin(<<"~", "Library", "Ethereum", net, "geth.ipc">>)))
       [] platform = "linux" ->
            Path(ExpandUser(PathJoin(<<"~", ".ethereum", net, "geth.ipc">>)))
       [] platform = "win32" ->
            Path(PathJoin(<<"\\\\", ".", "pipe", "geth.ipc">>))
       [] OTHER -> NoPath

\* A plausible slip: only the network's directory is joined, which is the
\* empty string off the test network.
Win32PathBare(testnet) ==
  ExpandUser(PathJoin(<<IF testnet THEN "testnet" ELSE "">>))

\* lines 179-185
Win32Path(testnet) ==
  ExpandUser(PathJoin(<<"~", "AppData", "Roaming", "Ethereum",
                        IF testnet THEN "testnet" ELSE "">>))

GethPath(platform, testnet) ==
  IF platform = "win32" THEN Path(Win32Path(testnet))
  ELSE LET ipc == get_default_ipc_path(platform, testnet)
       IN IF ipc.raised # "none" THEN ipc ELSE Path(DirName(ipc.path))

get_default_geth_path(platform, testnet) ==
  /\ tool = NoTool
  /\ tool' = [op |-> "get_default_geth_path", platform |-> platform,
              testnet |-> testnet, result |-> GethPath(platform, testnet)]
  /\ UNCHANGED <<nodeVars, exitpos>>

\* the caller takes the outcome of the call
ToolReturn ==
  /\ tool # NoTool
  /\ tool' = NoTool
  /\ UNCHANGED <<nodeVars, exitpos>>

\* the module-level functions, called one at a time
ToolsNext ==
  \/ ToolReturn
  \/ \E platform \in Platforms : \E testnet \in BOOLEAN :
       get_default_geth_path(platform, testnet)
  \/ \E target \in Targets : \E addr \in AddressInputs(target) :
       \E response \in Responses : ropsten_faucet_donate(target, addr, response)

ToolsSpec == Init /\ [][ToolsNext]_vars

(***************************************************************************)
(* Properties.                                                             *)
(***************************************************************************)
\* this step is a call of op on instance i
CallStep(op, i) ==
  last'.tick # last.tick /\ last'.op = op /\ last'.inst = i

\* this step ends the start() of instance i that was in the readiness loop
StartEnds(i) == polling = i /\ polling' = 0

\* the children instance i spawned that have not been terminated and waited for
Unreaped(i) ==
  {p \in 1..Len(procs) : procs[p].owner = i /\ procs[p].status # "reaped"}

C2_Reusable ==
  [][\A i \in Instances :
       /\ (startedOK[i] /\ CallStep("stop", i)) => ps'[i] = 0
       /\ (StartEnds(i) /\ last'.identified = chain) =>
            (last'.result = "ok" /\ ps'[i] # 0)]_vars

\* C3: an instance never has more than one child it spawned that has not
\* been terminated and waited for, and that child is the one its handle names.
C3_AtMostOneChild ==
  \A i \in Instances :
    /\ Cardinality(Unreaped(i)) <= 1
    /\ \A p \in Unreaped(i) : ps[i] = p

\* an instance is on its second child: the first was stopped, the second lives
C3_Witness ==
  \E i \in Instances : \E p, q \in 1..Len(procs) :
    /\ procs[p].owner = i /\ procs[p].status = "reaped"
    /\ procs[q].owner = i /\ procs[q].status = "alive"
    /\ ps[i] = q

\* component-wise numeric ordering of three-component versions
VersionLeq(u, v) ==
  \/ u[1] < v[1]
  \/ u[1] = v[1] /\ u[2] < v[2]
  \/ u[1] = v[1] /\ u[2] = v[2] /\ u[3] <= v[3]

\* the binary reports a three-component version
ReportsVersion == gethFound /\ Len(gethVersion) = 3

\* that version lies in [1.6.1, 1.6.999]
InAcceptedRange ==
  VersionLeq(<<1, 6, 1>>, gethVersion) /\ VersionLeq(gethVersion, <<1, 6, 999>>)

\* C4: a binary whose version is outside the accepted range is never
\* launched: no construction over it succeeds, and no init subcommand and no
\* long-running process is ever started; whenever one has been started, the
\* binary's version was accepted by a construction before.
C4_IncompatibleNeverLaunched ==
  /\ (ReportsVersion /\ ~InAcceptedRange) =>
       /\ \A i \in Instances : obj[i] # "ok" /\ ps[i] = 0
       /\ initRuns = 0
       /\ procs = <<>>
       /\ hooks = <<>>
  /\ (initRuns > 0 \/ procs # <<>>) =>
       /\ ReportsVersion /\ InAcceptedRange
       /\ \E i \in Instances : obj[i] = "ok"

\* every construction over an incompatible binary has failed
C4_Witness ==
  /\ ReportsVersion /\ ~InAcceptedRange
  /\ \A i \in Instances : obj[i] = "OSError: incompatible version"

\* C5: over a binary reporting a three-component version, construction
\* succeeds exactly when MIN <= v <= MAX (both bounds accepted), and fails
\* with the incompatible-version error otherwise.
C5_VersionRangeInclusive ==
  \A i \in Instances :
    (ReportsVersion /\ obj[i] # "none") =>
      /\ obj[i] = "ok" <=> InAcceptedRange
      /\ ~InAcceptedRange => obj[i] = "OSError: incompatible version"

\* a construction succeeded over a binary whose version is a bound of the range
C5_Witness ==
  /\ gethVersion \in {<<1, 6, 1>>, <<1, 6, 999>>}
  /\ \E i \in Instances : obj[i] = "ok"

\* C6: when the chain identified once the endpoint is reachable is not the
\* expected one ('unknown' included), start() raises the wrong-chain error
\* and leaves the spawned child and the handle as they are.
C6_WrongChainLeavesChild ==
  [][\A i \in Instances :
       (StartEnds(i) /\ last'.identified # chain) =>
         /\ last'.result = "OSError: wrong chain"
         /\ procs' = procs
         /\ ps' = ps
         /\ ps'[i] # 0]_vars

\* start() failed on an unknown chain and its child is still alive
C6_Witness ==
  /\ last.op = "start"
  /\ last.result = "OSError: wrong chain"
  /\ last.identified = "unknown"
  /\ ps[last.inst] # 0
  /\ procs[ps[last.inst]].status = "alive"

\* C7: is_running() holds only after a start() that completed without error;
\* a start() that raises does not leave is_running() True unless it was
\* True before the call.
C7_RunningOnlyAfterStart ==
  (last.op = "start" /\ last.result \notin {"ok", "polling"}
     /\ ~last.wasRunning) => ~is_running(last.inst)

\* C8: stop() on an instance that is not running sends no signal and changes
\* nothing; stop() on a running instance signals the child; and whenever
\* stop() returns, the handle is cleared, the child it named has been
\* waited for, and no child of the instance is alive.
C8_StopSemantics ==
  [][\A i \in Instances :
       CallStep("stop", i) =>
         /\ ps[i] = 0 =>
              /\ last'.result = "ok" /\ ~last'.signalled
              /\ ps' = ps /\ procs' = procs /\ startedOK' = startedOK
              /\ hooks' = hooks /\ initRuns' = initRuns /\ obj' = obj
         /\ ps[i] # 0 => last'.signalled
         /\ last'.result = "ok" =>
              /\ ps'[i] = 0
              /\ ps[i] # 0 => procs'[ps[i]].status = "reaped"
              /\ \A p \in 1..Len(procs') :
                   procs'[p].owner = i => procs'[p].status # "alive"]_vars

\* stop() returned on an instance that was running
C8_Witness ==
  /\ last.op = "stop" /\ last.result = "ok"
  /\ last.wasRunning /\ last.signalled
  /\ ps[last.inst] = 0

\* C9: a start() whose init subcommand exits non-zero raises the init error,
\* spawns nothing, registers no hook and leaves is_running() False; a
\* start() refused because a handle is set leaves handle, children and
\* hooks untouched.
C9_EarlyFailureChangesNothing ==
  [][\A i \in Instances :
       CallStep("start", i) =>
         /\ (ps[i] = 0 /\ last'.returncode \notin {0, -1}) =>
              /\ last'.result = "OSError: geth init failed"
              /\ procs' = procs /\ hooks' = hooks /\ ps' = ps
              /\ polling' = 0 /\ startedOK' = startedOK
         /\ ps[i] # 0 =>
              /\ last'.result = "RuntimeError: already started"
              /\ procs' = procs /\ hooks' = hooks /\ ps' = ps
              /\ initRuns' = initRuns]_vars

\* start() failed at init on an instance that is not running
C9_Witness ==
  /\ last.op = "start"
  /\ last.result = "OSError: geth init failed"
  /\ last.returncode = 1
  /\ ~is_running(last.inst)

\* C10: stop() on a running instance whose child is already gone (terminate
\* raises) returns normally and clears the handle.
C10_GoneChildSwallowed ==
  [][\A i \in Instances :
       (CallStep("stop", i) /\ ps[i] # 0 /\ TerminateRaises(ps[i])) =>
         (last'.result = "ok" /\ ps'[i] = 0)]_vars

\* the children instance i spawned, with their states
ChildrenOf(i) ==
  {<<p, procs[p].status>> : p \in {q \in 1..Len(procs) : procs[q].owner = i}}

\* C11 (all instances stand over one data directory: the code consults the
\* directory for no guard, and the socket under it is shared): the
\* already-running guard is local to the instance: a start() on an
\* instance whose own handle is unset is never refused as a double start,
\* whatever the other instances run, and a call on one instance (start, its
\* readiness loop, stop) leaves the handle, the history and the children of
\* every other instance as they were.
C11_GuardIsInstanceLocal ==
  [][\A i \in Instances :
       /\ (CallStep("start", i) /\ ps[i] = 0) =>
            last'.result # "RuntimeError: already started"
       /\ (CallStep("start", i) \/ CallStep("stop", i) \/ StartEnds(i)) =>
            \A j \in Instances \ {i} :
              /\ ps'[j] = ps[j]
              /\ startedOK'[j] = startedOK[j]
              /\ obj'[j] = obj[j]
              /\ ChildrenOf(j)' = ChildrenOf(j)]_vars

\* two instances have both completed start() and are running at once, each
\* with a live child of its own
C11_Witness ==
  \E i, j \in Instances :
    /\ i # j
    /\ startedOK[i] /\ startedOK[j]
    /\ is_running(i) /\ is_running(j)
    /\ ps[i] # ps[j]
    /\ procs[ps[i]].status = "alive" /\ procs[ps[j]].status = "alive"

\* the errors __init__ raises on purpose, all of class OSError
ConstructionErrors == {"OSError: geth not found", "OSError: incompatible version"}

\* C12: when the output of the version query holds no three-component
\* version, construction fails with the error it raises for a bad
\* configuration, and no instance is created.
C12_NoVersionIsConfigurationError ==
  \A i \in Instances :
    (gethFound /\ ReSearchVersion(gethOutput) = NoMatch /\ obj[i] # "none") =>
      obj[i] \in ConstructionErrors

\* sub occurs in s as a run of consecutive elements
Contains(s, sub) ==
  \E k \in 0..(Len(s) - Len(sub)) : SubSeq(s, k + 1, k + Len(sub)) = sub

Donated == tool.op = "ropsten_faucet_donate"

\* C13: a donation makes exactly one request, whose URL contains the hex
\* digits of the target address, whatever the outcome; it returns True
\* exactly when the status is 200 and the paydate is nonzero, and False for
\* any other status and for status 200 with paydate 0.
C13_DonateContract ==
  Donated =>
    /\ Len(tool.requests) = 1
    /\ Contains(tool.requests[1], HexEncode(tool.target))
    /\ tool.result = "True" <=>
         (tool.response.status = 200 /\ tool.response.isJson
            /\ tool.response.hasPaydate /\ tool.response.paydate # 0)
    /\ tool.response.status # 200 => tool.result = "False"
    /\ (tool.response.status = 200 /\ tool.response.isJson
          /\ tool.response.hasPaydate /\ tool.response.paydate = 0) =>
         tool.result = "False"

\* C14: a malformed answer of the faucet (status 200 with a body that has
\* no paydate, or a nonzero paydate and no amount) gives the result False,
\* never an exception.
C14_MalformedResponseIsFalse ==
  (Donated /\ tool.response.status = 200 /\ tool.response.isJson
     /\ (\/ ~tool.response.hasPaydate
         \/ tool.response.paydate # 0 /\ ~tool.response.hasAmount)) =>
    tool.result = "False"

\* the hashes that are keys of the table
TableKeys == {e[1] : e \in GENESES}

\* the chain name the table gives for one of its keys
TableName(genesis) == (CHOOSE e \in GENESES : e[1] = genesis)[2]

\* C15: identify_chain returns the table's chain name for a genesis hash
\* equal to a key of the table and "unknown" for any other hash, raising in
\* neither case, and leaves the handle, the children and the rest of the
\* supervisor as they were.
C15_IdentifyChainLookup ==
  [][\A i \in Instances :
       CallStep("identify_chain", i) =>
         /\ last'.genesis \in TableKeys => last'.result = TableName(last'.genesis)
         /\ last'.genesis \notin TableKeys => last'.result = "unknown"
         /\ ps' = ps /\ procs' = procs /\ startedOK' = startedOK
         /\ hooks' = hooks /\ initRuns' = initRuns /\ obj' = obj]_vars

C15_Witness ==
  /\ last.op = "identify_chain"
  /\ last.genesis \notin TableKeys
  /\ last.result = "unknown"
  /\ is_running(last.inst)

\* a hash without its "0x" prefix and with its hex letters in one case
Canon(hash) ==
  Upper(IF Len(hash) >= 2 /\ hash[1] = "0" /\ hash[2] \in {"x", "X"}
          THEN Drop(hash, 2) ELSE hash)

\* C16: a hash the node reports that differs from a key of the table only
\* in the case of its hex letters or in the "0x" prefix is identified as
\* that key's chain, so a start() against a node of the expected chain does
\* not end with the wrong-chain error.
C16_LookupNormalized ==
  [][\A i \in Instances : \A e \in GENESES :
       (Canon(last'.genesis) = Canon(e[1])
          /\ (StartEnds(i) \/ CallStep("identify_chain", i))) =>
         /\ last'.identified = e[2]
         /\ (StartEnds(i) /\ e[2] = chain) => last'.result = "ok"]_vars

\* the platforms the path discovery supports
Supported == {"darwin", "linux", "win32"}

\* C17: the default path is a non-empty path on darwin, linux and win32,
\* on and off the test network, and the call raises ValueError on any
\* other platform.
C17_DefaultPath ==
  tool.op = "get_default_geth_path" =>
    /\ tool.platform \in Supported =>
         (tool.result.raised = "none" /\ tool.result.path # <<>>)
    /\ tool.platform \notin Supported => tool.result.raised = "ValueError"

C17_Witness ==
  /\ tool.op = "get_default_geth_path"
  /\ tool.platform = "win32"
  /\ ~tool.testnet
  /\ tool.result.path = Home \o <<Sep, "AppData", Sep, "Roaming", Sep, "Ethereum", Sep>>

\* C18: in start() the init subcommand, the spawn and the registration of
\* the hook come before the first probe; the chain is identified only in
\* the step where a probe finds the endpoint reachable; every failed probe
\* is followed by one sleep of the same interval, however long the wait has
\* been; and start() ends, with its result or the wrong-chain error, in no
\* step but that of a successful probe: there is no timeout.
C18_FixedIntervalNoTimeout ==
  /\ [](\A i \in Instances :
          polling = i =>
            /\ last.op = "start" /\ last.inst = i /\ last.result = "polling"
            /\ last.returncode = 0 /\ initRuns >= 1
            /\ ps[i] # 0 /\ procs[ps[i]].owner = i
            /\ \E k \in 1..Len(hooks) : hooks[k] = i
            /\ last.identified = "none" /\ last.genesis = <<>>)
  /\ [][\A i \in Instances :
          /\ (polling = i /\ polling' = i /\ wait_time' # wait_time) =>
               (wait_time' = wait_time + WAIT_PERIOD /\ last' = last)
          /\ (polling = i /\ polling' # i) =>
               /\ polling' = 0
               /\ last'.genesis \in GenesisHashes
               /\ last'.identified = GenesesGet(last'.genesis)
               /\ last'.result \in {"ok", "OSError: wrong chain"}
          /\ (polling # i /\ polling' = i) =>
               /\ initRuns' = initRuns + 1
               /\ Len(procs') = Len(procs) + 1
               /\ Len(hooks') = Len(hooks) + 1]_vars

C18_Witness ==
  /\ polling # 0
  /\ wait_time = 2 * WAIT_PERIOD
  /\ last.result = "polling"

\* the step runs the next hook of the exit
HookRuns == exitpos > 0 /\ exitpos' = exitpos - 1

\* the child instance i holds can still be signalled and waited for
Terminable(i) == ps[i] # 0 /\ procs[ps[i]].status \in {"alive", "exited"}

\* C19: every spawn registers a hook for its instance, before the first
\* probe; when all the hooks have run at exit, no child is alive, whatever
\* calls of start() and stop() came before; a hook terminates and waits for
\* the child its instance holds, and a hook whose instance holds no child
\* (it was stopped, or an earlier hook ran) changes nothing.
C19_HooksLeaveNoChild ==
  /\ [](/\ Len(hooks) = Len(procs)
        /\ \A k \in 1..Len(hooks) : hooks[k] = procs[k].owner
        /\ (polling # 0 => hooks[Len(hooks)] = polling))
  /\ [](exitpos = 0 => \A p \in 1..Len(procs) : procs[p].status # "alive")
  /\ [][HookRuns =>
          LET i == hooks[exitpos]
          IN /\ last'.op = "stop" /\ last'.inst = i
             /\ IF Terminable(i)
                  THEN /\ procs'[ps[i]].status = "reaped"
                       /\ ps'[i] = 0
                       /\ last'.result = "ok"
                  ELSE ps' = ps /\ procs' = procs
             /\ (ps[i] = 0 => last'.result = "ok")
             /\ hooks' = hooks]_vars

C19_Witness ==
  /\ exitpos >= 1
  /\ exitpos < Len(hooks)
  /\ last.op = "stop" /\ last.signalled /\ last.result = "ok"
  /\ last.wasRunning /\ ~last.wasStarted
  /\ hooks[exitpos] = last.inst
  /\ \A p \in 1..Len(procs) : procs[p].status # "alive"

\* instance i holds a child that has exited on its own
HoldsDeadChild(i) == ps[i] # 0 /\ procs[ps[i]].status # "alive"

\* C20: is_running() changes in no step but a call of start() or stop();
\* when the child exits on its own the instance still reports running and
\* a start() on it is refused as a double start; a stop() then clears the
\* handle, so that start() is possible again.
C20_StaleUntilStop ==
  [][\A i \in Instances :
       /\ is_running(i)' # is_running(i) =>
            (CallStep("start", i) \/ CallStep("stop", i))
       /\ (HoldsDeadChild(i) /\ CallStep("start", i)) =>
            (last'.result = "RuntimeError: already started" /\ is_running(i)')
       /\ (HoldsDeadChild(i) /\ CallStep("stop", i)) =>
            (last'.result = "ok" /\ ~is_running(i)')]_vars

====
